---- MODULE Spec2Model ----
(***************************************************************************)
(* A model of the OpenModes numerical core in src/core_cython.pyx:         *)
(*   - voltage_plane_wave: the OpenMP-parallel excitation-vector assembler *)
(*     and the quadrature routine source_integral_plane_wave it drives;    *)
(*   - triangle_face_to_rwg: the face-to-RWG conversion double loop.       *)
(*                                                                         *)
(* Numbers.  The double inputs (node coordinates, quadrature points and    *)
(* weights) are modelled by integers.  A complex_t value is modelled by    *)
(* one component that is either a finite integer, an infinity or a NaN,    *)
(* with the IEEE-754 rules for the non-finite values (inf - inf = NaN,     *)
(* 0 * inf = NaN).  Rounding of finite sums is not modelled.               *)
(***************************************************************************)
EXTENDS Integers, Sequences, FiniteSets, TLC

\* ------------------------------------------------------------------ bounds
MaxThreads   == 2   \* largest omp_get_max_threads() explored
MaxTriangles == 2   \* largest number of triangles of a mesh
MaxQuad      == 2   \* largest number of quadrature points
MaxBasis     == 2   \* largest number of basis functions
ExpMax       == 3   \* largest exponent the model's exp() represents finitely

\* The three local nodes of a triangle / three cartesian components.
Dim == 3

Idx3 == 0 .. (Dim - 1)

\* ------------------------------------------------------- complex_t values
Fin(n) == <<"fin", n>>
PInf   == <<"inf", 1>>
NInf   == <<"inf", -1>>
NaN    == <<"nan", 0>>
\* The content of np.empty / malloc storage that was never written.
Uninit == <<"uninit", 0>>

Zero == Fin(0)

IsFin(v) == v[1] = "fin"
IsInf(v) == v[1] = "inf"
IsNaN(v) == v[1] \notin {"fin", "inf"}

Sgn(n) == IF n > 0 THEN 1 ELSE IF n < 0 THEN -1 ELSE 0

FNeg(a) ==
    IF IsNaN(a) THEN NaN ELSE <<a[1], -a[2]>>

FAdd(a, b) ==
    IF IsNaN(a) \/ IsNaN(b) THEN NaN
    ELSE IF IsInf(a) /\ IsInf(b) THEN (IF a[2] = b[2] THEN a ELSE NaN)
    ELSE IF IsInf(a) THEN a
    ELSE IF IsInf(b) THEN b
    ELSE Fin(a[2] + b[2])

FSub(a, b) == FAdd(a, FNeg(b))

FMul(a, b) ==
    IF IsNaN(a) \/ IsNaN(b) THEN NaN
    ELSE IF IsInf(a) \/ IsInf(b)
         THEN (IF Sgn(a[2]) * Sgn(b[2]) = 0 THEN NaN
               ELSE <<"inf", Sgn(a[2]) * Sgn(b[2])>>)
    ELSE Fin(a[2] * b[2])

RECURSIVE Pow2(_)
Pow2(n) == IF n <= 0 THEN 1 ELSE 2 * Pow2(n - 1)

\* exp() of libc on the model's integers: 2^x on 0..ExpMax, overflow to +inf
\* above ExpMax, underflow to 0 below 0.
Exp(x) ==
    IF x > ExpMax THEN PInf
    ELSE IF x < 0 THEN Zero
    ELSE Fin(Pow2(x))

\* cexp(z) = exp(creal(z))*(cos(cimag(z)) + _Complex_I*sin(cimag(z))), on the
\* one modelled component (cimag(z) = 0, so the second factor is 1).
cexp(z) ==
    IF IsNaN(z) THEN NaN
    ELSE IF IsInf(z) THEN (IF z[2] > 0 THEN PInf ELSE Zero)
    ELSE FMul(Exp(z[2]), Fin(1))

\* dot_product_complex_real(3, a, b): result = 0.0; result += a[c]*b[c].
RECURSIVE DotLoop(_, _, _, _)
DotLoop(length, a, b, counter) ==
    IF counter = 0 THEN Zero
    ELSE FAdd(DotLoop(length, a, b, counter - 1),
              FMul(a[counter - 1], Fin(b[counter - 1])))

dot_product_complex_real(length, a, b) == DotLoop(length, a, b, length)


\* -------------------------------------------- source_integral_plane_wave
Vec3(a, b, c) == [i \in Idx3 |-> IF i = 0 THEN a ELSE IF i = 1 THEN b ELSE c]

\* Cartesian coordinates of the observer: r_o[index_a] =
\*   xi_o*nodes_o[0, a] + eta_o*nodes_o[1, a] + zeta_o*nodes_o[2, a],
\* with zeta_o = 1.0 - eta_o - xi_o.
ObserverPoint(xi_o, eta_o, nodes_o) ==
    [index_a \in Idx3 |->
        xi_o * nodes_o[0][index_a] + eta_o * nodes_o[1][index_a]
          + (1 - eta_o - xi_o) * nodes_o[2][index_a]]

\* Vector rho within the observer triangle: rho_o[a][b] = r_o[b] - nodes_o[a, b].
Rho(r_o, nodes_o) ==
    [index_a \in Idx3 |-> [index_b \in Idx3 |-> r_o[index_b] - nodes_o[index_a][index_b]]]

\* The incident electric field at r_o: e_r[a] = cexp(-jkr)*e_inc[a].
IncidentField(r_o, jk, e) ==
    LET jkr     == dot_product_complex_real(Dim, jk, r_o)
        exp_jkr == cexp(FNeg(jkr))
    IN  [index_a \in Idx3 |-> FMul(exp_jkr, e[index_a])]

\* Mutant: the weight added to the dot product instead of multiplying it.
PointTermAddW(xi_eta_o, weights_o, nodes_o, jk, e, count_o) ==
    LET w_o   == weights_o[count_o]
        r_o   == ObserverPoint(xi_eta_o[count_o][0], xi_eta_o[count_o][1], nodes_o)
        rho_o == Rho(r_o, nodes_o)
        e_r   == IncidentField(r_o, jk, e)
    IN  [index_a \in Idx3 |->
            FAdd(dot_product_complex_real(Dim, e_r, rho_o[index_a]), Fin(w_o))]

\* The term one quadrature point adds to I[index_a]:
\*   dot_product_complex_real(3, &e_r[0], &rho_o[index_a][0])*w_o.
PointTerm(xi_eta_o, weights_o, nodes_o, jk, e, count_o) ==
    LET w_o   == weights_o[count_o]
        r_o   == ObserverPoint(xi_eta_o[count_o][0], xi_eta_o[count_o][1], nodes_o)
        rho_o == Rho(r_o, nodes_o)
        e_r   == IncidentField(r_o, jk, e)
    IN  [index_a \in Idx3 |->
            FMul(dot_product_complex_real(Dim, e_r, rho_o[index_a]), Fin(w_o))]

\* I[index_a] += term, for the three components.
Accumulate(I, term) == [index_a \in Idx3 |-> FAdd(I[index_a], term[index_a])]

\* The whole routine: I[:] = 0.0, then one accumulation per quadrature point.
RECURSIVE IntegralLoop(_, _, _, _, _, _)
IntegralLoop(xi_eta_o, weights_o, nodes_o, jk, e, n) ==
    IF n = 0 THEN [index_a \in Idx3 |-> Zero]
    ELSE Accumulate(IntegralLoop(xi_eta_o, weights_o, nodes_o, jk, e, n - 1),
                    PointTerm(xi_eta_o, weights_o, nodes_o, jk, e, n - 1))

source_integral_plane_wave(xi_eta_o, weights_o, nodes_o, jk, e) ==
    IntegralLoop(xi_eta_o, weights_o, nodes_o, jk, e, Cardinality(DOMAIN xi_eta_o))

\* ------------------------------------------------------------------ state
VARIABLES
    call,            \* which routine the caller invokes: "voltage" or "rwg"
    pc,              \* position of the calling (master) thread
    \* arguments
    nodes, triangle_nodes,
    basis_tri_p, basis_tri_m, basis_node_p, basis_node_m,
    xi_eta_eval, weights, e_inc, jk_inc,
    vector_face, scalar_face,
    \* voltage_plane_wave
    V, V_face,       \* the excitation vector and the per-face buffer
    n_threads,       \* omp_get_max_threads() at entry
    nodes_p,         \* the scratch block, one 3x3 slot per thread
    scratch_live,    \* nodes_p_storage is malloc'ed and not yet freed
    tpc,             \* position of each thread of the parallel region
    thread_id, p, m, count_o,   \* thread-private variables
    next_p,          \* the dynamic schedule's next unassigned triangle
    basis_left,      \* iterations of the second prange not yet handed out
    \* triangle_face_to_rwg
    vector_rwg, scalar_rwg,
    rwg_m, rwg_n,    \* the loop indices m and n
    \* the caller
    omp_max_threads, \* what omp_get_max_threads() answers (OMP_NUM_THREADS)
    result,          \* what the call returned
    ncall,           \* the caller's first or second call
    first_result,    \* what the first call returned
    swap_k,          \* the basis function whose roles the caller exchanges
    \* history variables (observation only)
    handed_tri, handed_basis,   \* iteration -> threads it was handed to
    writers, nwrites,           \* per output cell: writing threads, write count
    scratch_users,              \* per scratch slot: threads that touched it
    oob_used,                   \* an out-of-range index was used on a buffer
    free_count

args == <<nodes, triangle_nodes, basis_tri_p, basis_tri_m, basis_node_p,
          basis_node_m, xi_eta_eval, weights, e_inc, jk_inc, vector_face, scalar_face>>
volt == <<V, V_face, n_threads, nodes_p, scratch_live, tpc, thread_id, p, m,
          count_o, next_p, basis_left>>
rwg  == <<vector_rwg, scalar_rwg, rwg_m, rwg_n>>
hist == <<handed_tri, handed_basis, writers, nwrites, scratch_users, oob_used, free_count>>
caller == <<omp_max_threads, result, swap_k, ncall, first_result>>
vars == <<call, pc, args, volt, rwg, caller, hist>>

num_triangles == Cardinality(DOMAIN triangle_nodes)
num_basis     == Cardinality(DOMAIN basis_tri_p)
n_o           == Cardinality(DOMAIN xi_eta_eval)
Threads       == DOMAIN tpc

\* ----------------------------------------------------------------- inputs
\* What an out-of-range read of a double / of a complex buffer may deliver.
GarbageReal == {-1, 2}
GarbageVal  == {Fin(5), NaN}

\* A strip of T triangles over T+2 nodes: triangle t has nodes t, t+1, t+2.
MeshNodes(T)      == [i \in 0 .. (T + 1) |-> Vec3(i, i % 2, i \div 2)]
StripTriangles(T) == [t \in 0 .. (T - 1) |-> Vec3(t, t + 1, t + 2)]

\* Basis tables: B basis functions over T triangles, tri_plus # tri_minus.
TableTriP(T, B, k)  == [b \in 0 .. (B - 1) |-> (b + k) % T]
TableTriM(T, B, k)  == [b \in 0 .. (B - 1) |-> (b + k + 1) % T]
TableNodeP(B, k)    == [b \in 0 .. (B - 1) |-> (b + k) % Dim]
TableNodeM(B, k)    == [b \in 0 .. (B - 1) |-> (2 * b + k + 2) % Dim]

\* Quadrature rules with n points on the reference triangle's vertices.
RulePoints(n)  == [c \in 0 .. (n - 1) |->
                     [d \in 0 .. 1 |-> IF c % Dim = d THEN 1 ELSE 0]]
RuleWeights(n) == [c \in 0 .. (n - 1) |-> c + 1]

EIncSet == {Vec3(Fin(0), Fin(0), Fin(0)), Vec3(Fin(1), Fin(2), Fin(-1))}
JkIncSet == {Vec3(Fin(0), Fin(-1), Fin(-1)), Vec3(Fin(-(ExpMax + 1)), Fin(0), Fin(0))}

\* Face tensors: entry number idx of tensor family s.
FaceValue(s, idx) == IF s = 0 THEN (idx + 1) * (idx + 1) ELSE ((idx * idx * idx) % 13) - 6
VectorFace(s, T0, T1, D0, D1) ==
    [x \in (0 .. (T0 - 1)) \X (0 .. (T1 - 1)) \X (0 .. (D0 - 1)) \X (0 .. (D1 - 1)) |->
        Fin(FaceValue(s, ((x[1] * MaxTriangles + x[2]) * Dim + x[3]) * Dim + x[4]))]
ScalarFace(s, T0, T1) ==
    [x \in (0 .. (T0 - 1)) \X (0 .. (T1 - 1)) |->
        Fin(FaceValue(1 - s, x[1] * MaxTriangles + x[2]) + 3)]

InputKinds == {"ok", "bad_tri", "bad_node", "bad_trinode"}
ShapeKinds == {"ok", "few_tris", "few_nodes", "few_scalar"}

InitVoltageArgs ==
    \E kind \in InputKinds, k \in 0 .. 1 :
      LET T == MaxTriangles
          B == MaxBasis
      IN
      /\ nodes = MeshNodes(T)
      /\ triangle_nodes =
            IF kind = "bad_trinode"
            THEN [StripTriangles(T) EXCEPT ![0][1] = T + 2]
            ELSE StripTriangles(T)
      /\ basis_tri_p = TableTriP(T, B, k)
      /\ basis_tri_m =
            IF kind = "bad_tri"
            THEN [TableTriM(T, B, k) EXCEPT ![0] = T]
            ELSE TableTriM(T, B, k)
      /\ basis_node_p =
            IF kind = "bad_node"
            THEN [TableNodeP(B, k) EXCEPT ![0] = Dim]
            ELSE TableNodeP(B, k)
      /\ basis_node_m = TableNodeM(B, k)
      /\ xi_eta_eval = RulePoints(MaxQuad)
      /\ weights = RuleWeights(MaxQuad)
      /\ \/ /\ kind = "ok" /\ e_inc \in EIncSet /\ jk_inc \in JkIncSet
            /\ omp_max_threads = 1
         \/ /\ kind # "ok" /\ k = 0
            /\ e_inc = Vec3(Fin(1), Fin(2), Fin(-1))
            /\ jk_inc = Vec3(Fin(0), Fin(-1), Fin(-1))
            /\ omp_max_threads = MaxThreads
      /\ vector_face = << >>
      /\ scalar_face = << >>
      /\ swap_k = -1

InitRwgArgs ==
    \E kind \in ShapeKinds, k \in 0 .. 1, s \in 0 .. 1 :
      LET T == MaxTriangles
          B == MaxBasis
      IN
      /\ nodes = << >>
      /\ triangle_nodes = << >>
      /\ basis_tri_p = TableTriP(T, B, k)
      /\ basis_tri_m = TableTriM(T, B, k)
      /\ basis_node_p = TableNodeP(B, k)
      /\ basis_node_m = TableNodeM(B, k)
      /\ xi_eta_eval = << >>
      /\ weights = << >>
      /\ e_inc = << >>
      /\ jk_inc = << >>
      /\ vector_face =
            IF kind = "few_tris" THEN VectorFace(s, T - 1, T, Dim, Dim)
            ELSE IF kind = "few_nodes" THEN VectorFace(s, T, T, Dim, Dim - 1)
            ELSE VectorFace(s, T, T, Dim, Dim)
      /\ scalar_face =
            IF kind = "few_scalar" THEN ScalarFace(s, T, T - 1)
            ELSE ScalarFace(s, T, T)
      /\ \/ kind = "ok" /\ swap_k \in 0 .. (B - 1)
         \/ kind # "ok" /\ s = 0 /\ swap_k = 0
      /\ omp_max_threads = 1

Init ==
    /\ call \in {"voltage", "rwg"}
    /\ pc = "entry"
    /\ \/ call = "voltage" /\ InitVoltageArgs
       \/ call = "rwg" /\ InitRwgArgs
    /\ V = << >> /\ V_face = << >>
    /\ n_threads = 0
    /\ nodes_p = << >>
    /\ scratch_live = FALSE
    /\ tpc = << >> /\ thread_id = << >> /\ p = << >> /\ m = << >> /\ count_o = << >>
    /\ next_p = 0
    /\ basis_left = {}
    /\ vector_rwg = << >> /\ scalar_rwg = << >>
    /\ rwg_m = 0 /\ rwg_n = 0
    /\ result = << >>
    /\ ncall = 1
    /\ first_result = << >>
    /\ handed_tri = << >> /\ handed_basis = << >>
    /\ writers = << >>
    /\ nwrites = << >>
    /\ scratch_users = << >>
    /\ oob_used = FALSE
    /\ free_count = 0

\* ------------------------------------------------------ voltage_plane_wave
\* Mutant: thread numbers counted from one.
ThreadNumFromOne(w) == w + 1

\* openmp.omp_get_thread_num() of the w-th thread of the team.
omp_get_thread_num(w) == w

\* Mutant: the schedule's counter is not advanced.
NextChunkStale(np) == np

\* The dynamic schedule hands out chunks of one iteration, in order.
NextChunk(np) == np + 1

\* Mutant: p shared by the team instead of private to each thread.
SharedP(w) == p[0]

\* A thread's own copy of the loop variable p (private in the parallel block).
PrivateP(w) == p[w]

\* Mutant: one scratch buffer for the whole team.
SlotZero(w) == 0

\* The scratch slot a thread works on: nodes_p[thread_id, :, :].
Slot(w) == thread_id[w]

Zeros3 == [c \in Idx3 |-> Zero]

\* A 3x3 slot as malloc delivers it.  Its content is indeterminate; every row
\* is overwritten by Gather before IntegratePoint reads it, so one filler
\* stands for all contents.
MallocFill == [a \in Idx3 |-> [b \in Idx3 |-> -1]]

\* Lines 201-244: allocate V, V_face and the scratch block, start the team.
EnterVoltage ==
    /\ call = "voltage" /\ pc = "entry"
    /\ \E team \in 1 .. omp_max_threads :
         LET nt == omp_max_threads IN
         /\ n_threads' = nt
         /\ nodes_p' = [s \in 0 .. (nt - 1) |-> MallocFill]
         /\ scratch_users' = [s \in 0 .. (nt - 1) |-> {}]
         /\ tpc' = [w \in 0 .. (team - 1) |-> "fetch"]
         /\ thread_id' = [w \in 0 .. (team - 1) |-> omp_get_thread_num(w)]
         /\ p' = [w \in 0 .. (team - 1) |-> 0]
         /\ m' = [w \in 0 .. (team - 1) |-> 0]
         /\ count_o' = [w \in 0 .. (team - 1) |-> 0]
    /\ V' = [b \in DOMAIN basis_tri_p |-> Zero]
    /\ V_face' = [t \in DOMAIN triangle_nodes |-> Zeros3]
    /\ scratch_live' = TRUE
    /\ next_p' = 0
    /\ basis_left' = DOMAIN basis_tri_p
    /\ handed_tri' = [t \in DOMAIN triangle_nodes |-> {}]
    /\ handed_basis' = [b \in DOMAIN basis_tri_p |-> {}]
    /\ writers' = [V_face |-> [t \in DOMAIN triangle_nodes |-> {}],
                   V |-> [b \in DOMAIN basis_tri_p |-> {}]]
    /\ nwrites' = [V_face |-> [t \in DOMAIN triangle_nodes |-> [c \in Idx3 |-> 0]],
                   V |-> [b \in DOMAIN basis_tri_p |-> 0]]
    /\ oob_used' = FALSE
    /\ free_count' = 0
    /\ pc' = "parallel"
    /\ UNCHANGED <<call, args, rwg, caller>>

\* Line 245: the prange over triangles, schedule='dynamic'.
Fetch(w) ==
    /\ pc = "parallel" /\ tpc[w] = "fetch"
    /\ IF next_p < num_triangles
       THEN /\ p' = [p EXCEPT ![w] = next_p]
            /\ m' = [m EXCEPT ![w] = 0]
            /\ next_p' = NextChunk(next_p)
            /\ handed_tri' = [handed_tri EXCEPT ![next_p] = @ \cup {w}]
            /\ tpc' = [tpc EXCEPT ![w] = "gather"]
       ELSE /\ tpc' = [tpc EXCEPT ![w] = "barrier"]
            /\ UNCHANGED <<p, m, next_p, handed_tri>>
    /\ UNCHANGED <<call, pc, args, V, V_face, n_threads, nodes_p, scratch_live,
                   thread_id, count_o, basis_left, rwg, caller,
                   handed_basis, writers, nwrites, scratch_users, oob_used, free_count>>

\* Lines 246-251, one pass of the loop over m: copy node triangle_nodes[p, m]
\* into row m of the thread's scratch slot.
Gather(w) ==
    /\ pc = "parallel" /\ tpc[w] = "gather"
    /\ Slot(w) \in DOMAIN nodes_p
    /\ LET which_node == triangle_nodes[PrivateP(w)][m[w]] IN
       \E g \in (IF which_node \in DOMAIN nodes THEN {0} ELSE GarbageReal) :
         /\ nodes_p' = [nodes_p EXCEPT ![Slot(w)][m[w]] =
                           IF which_node \in DOMAIN nodes
                           THEN nodes[which_node]
                           ELSE [q \in Idx3 |-> g]]
         /\ oob_used' = (oob_used \/ which_node \notin DOMAIN nodes)
    /\ scratch_users' = [scratch_users EXCEPT ![Slot(w)] = @ \cup {w}]
    /\ m' = [m EXCEPT ![w] = @ + 1]
    /\ tpc' = [tpc EXCEPT ![w] = IF m[w] + 1 = Dim THEN "zero" ELSE "gather"]
    /\ UNCHANGED <<call, pc, args, V, V_face, n_threads, scratch_live, thread_id, p,
                   count_o, next_p, basis_left, rwg, caller,
                   handed_tri, handed_basis, writers, nwrites, free_count>>

\* Line 123, called from line 255: I[:] = 0.0 on the row V_face[p, :].
IntegrateZero(w) ==
    /\ pc = "parallel" /\ tpc[w] = "zero"
    /\ V_face' = [V_face EXCEPT ![PrivateP(w)] = Zeros3]
    /\ count_o' = [count_o EXCEPT ![w] = 0]
    /\ tpc' = [tpc EXCEPT ![w] = IF n_o = 0 THEN "fetch" ELSE "point"]
    /\ writers' = [writers EXCEPT !.V_face[PrivateP(w)] = @ \cup {w}]
    /\ nwrites' = [nwrites EXCEPT !.V_face[PrivateP(w)] = [c \in Idx3 |-> @[c] + 1]]
    /\ UNCHANGED <<call, pc, args, V, n_threads, nodes_p, scratch_live, thread_id, p, m,
                   next_p, basis_left, rwg, caller,
                   handed_tri, handed_basis, scratch_users, oob_used, free_count>>

\* Lines 125-156, one pass of the loop over count_o: read the scratch slot,
\* add the quadrature point's term to V_face[p, :].
IntegratePoint(w) ==
    /\ pc = "parallel" /\ tpc[w] = "point"
    /\ Slot(w) \in DOMAIN nodes_p
    /\ V_face' = [V_face EXCEPT ![PrivateP(w)] =
                    Accumulate(@, PointTerm(xi_eta_eval, weights, nodes_p[Slot(w)],
                                            jk_inc, e_inc, count_o[w]))]
    /\ count_o' = [count_o EXCEPT ![w] = @ + 1]
    /\ tpc' = [tpc EXCEPT ![w] = IF count_o[w] + 1 = n_o THEN "fetch" ELSE "point"]
    /\ writers' = [writers EXCEPT !.V_face[PrivateP(w)] = @ \cup {w}]
    /\ nwrites' = [nwrites EXCEPT !.V_face[PrivateP(w)] = [c \in Idx3 |-> @[c] + 1]]
    /\ scratch_users' = [scratch_users EXCEPT ![Slot(w)] = @ \cup {w}]
    /\ UNCHANGED <<call, pc, args, V, n_threads, nodes_p, scratch_live, thread_id, p, m,
                   next_p, basis_left, rwg, caller,
                   handed_tri, handed_basis, oob_used, free_count>>

\* Mutant: the first prange ends without a barrier (nowait).
BarrierNoWait == TRUE

\* Mutant: the barrier opens once every triangle is handed out, not finished.
BarrierAllHandedOut == next_p >= num_triangles

\* The implicit barrier that ends the first prange.
BarrierOpen == \A v \in Threads : tpc[v] \in {"barrier", "reduce", "end"}

Barrier(w) ==
    /\ pc = "parallel" /\ tpc[w] = "barrier"
    /\ BarrierOpen
    /\ tpc' = [tpc EXCEPT ![w] = "reduce"]
    /\ UNCHANGED <<call, pc, args, V, V_face, n_threads, nodes_p, scratch_live,
                   thread_id, p, m, count_o, next_p, basis_left, rwg, caller, hist>>

\* V_face[t, i] as line 266 reads it: boundscheck(False), so an index outside
\* the buffer reads whatever lies there.
InVface(t, i) == t \in DOMAIN V_face /\ i \in Idx3
\* Mutant: the two indices exchanged, V_face[ip_p, p_p].
ReadVfaceTransposed(t, i, g) == IF InVface(i, t) THEN V_face[i][t] ELSE g

ReadVface(t, i, g) == IF InVface(t, i) THEN V_face[t][i] ELSE g

\* Lines 258-266, one iteration of the second prange.
Reduce(w) ==
    /\ pc = "parallel" /\ tpc[w] = "reduce"
    /\ \E b \in basis_left :
         LET p_p  == basis_tri_p[b]
             p_m  == basis_tri_m[b]
             ip_p == basis_node_p[b]
             ip_m == basis_node_m[b]
         IN
         \E g \in (IF InVface(p_p, ip_p) /\ InVface(p_m, ip_m) THEN {Zero} ELSE GarbageVal) :
           /\ V' = [V EXCEPT ![b] = FSub(ReadVface(p_p, ip_p, g), ReadVface(p_m, ip_m, g))]
           /\ oob_used' = (oob_used \/ ~(InVface(p_p, ip_p) /\ InVface(p_m, ip_m)))
           /\ basis_left' = basis_left \ {b}
           /\ handed_basis' = [handed_basis EXCEPT ![b] = @ \cup {w}]
           /\ writers' = [writers EXCEPT !.V[b] = @ \cup {w}]
           /\ nwrites' = [nwrites EXCEPT !.V[b] = @ + 1]
    /\ UNCHANGED <<call, pc, args, V_face, n_threads, nodes_p, scratch_live, tpc,
                   thread_id, p, m, count_o, next_p, rwg, caller,
                   handed_tri, scratch_users, free_count>>

\* A thread has run its share of the second prange.
ReduceDone(w) ==
    /\ pc = "parallel" /\ tpc[w] = "reduce"
    /\ basis_left = {} \/ \E v \in Threads \ {w} : tpc[v] # "end"
    /\ tpc' = [tpc EXCEPT ![w] = "end"]
    /\ UNCHANGED <<call, pc, args, V, V_face, n_threads, nodes_p, scratch_live,
                   thread_id, p, m, count_o, next_p, basis_left, rwg, caller, hist>>

\* An out-of-range read may also hit an unmapped page: the process dies.
SegFault ==
    /\ pc = "parallel"
    /\ \/ \E w \in Threads :
            /\ tpc[w] = "gather"
            /\ triangle_nodes[PrivateP(w)][m[w]] \notin DOMAIN nodes
       \/ \E w \in Threads, b \in basis_left :
            /\ tpc[w] = "reduce"
            /\ ~(InVface(basis_tri_p[b], basis_node_p[b])
                 /\ InVface(basis_tri_m[b], basis_node_m[b]))
    /\ pc' = "crashed"
    /\ oob_used' = TRUE
    /\ UNCHANGED <<call, args, volt, rwg, caller, handed_tri, handed_basis,
                   writers, nwrites, scratch_users, free_count>>

\* The end of the parallel block: every thread has left it.
Join ==
    /\ call = "voltage" /\ pc = "parallel"
    /\ \A w \in Threads : tpc[w] = "end"
    /\ pc' = "free"
    /\ UNCHANGED <<call, args, volt, rwg, caller, hist>>

\* Line 268: free(nodes_p_storage).
Free ==
    /\ call = "voltage" /\ pc = "free"
    /\ scratch_live' = FALSE
    /\ free_count' = free_count + 1
    /\ pc' = "return"
    /\ UNCHANGED <<call, args, V, V_face, n_threads, nodes_p, tpc, thread_id, p, m,
                   count_o, next_p, basis_left, rwg, caller,
                   handed_tri, handed_basis, writers, nwrites, scratch_users, oob_used>>

\* Line 272: return V.
ReturnVoltage ==
    /\ call = "voltage" /\ pc = "return"
    /\ result' = V
    /\ pc' = "returned"
    /\ UNCHANGED <<call, args, volt, rwg, omp_max_threads, swap_k, ncall, first_result, hist>>

\* Every index of the mesh and of the basis table is in range.
InputsValid ==
    /\ \A t \in DOMAIN triangle_nodes : \A a \in Idx3 : triangle_nodes[t][a] \in DOMAIN nodes
    /\ \A b \in DOMAIN basis_tri_p :
         /\ basis_tri_p[b] \in DOMAIN triangle_nodes
         /\ basis_tri_m[b] \in DOMAIN triangle_nodes
         /\ basis_node_p[b] \in Idx3
         /\ basis_node_m[b] \in Idx3

\* The caller of the parallel/serial scenario: after a first call made with one
\* thread it sets the number of threads and calls again with the same arguments.
RunAgain ==
    /\ call = "voltage" /\ pc = "returned" /\ ncall = 1
    /\ InputsValid
    /\ first_result' = result
    /\ omp_max_threads' \in 2 .. MaxThreads
    /\ ncall' = 2
    /\ pc' = "entry"
    /\ UNCHANGED <<call, args, volt, rwg, result, swap_k, hist>>

NextVoltage ==
    \/ EnterVoltage
    \/ \E w \in Threads : Fetch(w)
    \/ \E w \in Threads : Gather(w)
    \/ \E w \in Threads : IntegrateZero(w)
    \/ \E w \in Threads : IntegratePoint(w)
    \/ \E w \in Threads : Barrier(w)
    \/ \E w \in Threads : Reduce(w)
    \/ \E w \in Threads : ReduceDone(w)
    \/ SegFault
    \/ Join
    \/ Free
    \/ ReturnVoltage
    \/ RunAgain

\* ---------------------------------------------------- triangle_face_to_rwg
InVector(x) == x \in DOMAIN vector_face
InScalar(x) == x \in DOMAIN scalar_face

\* vector_face[...] and scalar_face[...] as lines 69-75 read them:
\* boundscheck(False), so an index outside the tensor reads whatever lies there.
ReadVector(x, g) == IF InVector(x) THEN vector_face[x] ELSE g
ReadScalar(x, g) == IF InScalar(x) THEN scalar_face[x] ELSE g

\* The tensor entries that cell (mm, nn) reads.
VectorReads(mm, nn) ==
    { <<basis_tri_p[mm], basis_tri_p[nn], basis_node_p[mm], basis_node_p[nn]>>,
      <<basis_tri_p[mm], basis_tri_m[nn], basis_node_p[mm], basis_node_m[nn]>>,
      <<basis_tri_m[mm], basis_tri_p[nn], basis_node_m[mm], basis_node_p[nn]>>,
      <<basis_tri_m[mm], basis_tri_m[nn], basis_node_m[mm], basis_node_m[nn]>> }
ScalarReads(mm, nn) ==
    { <<basis_tri_m[mm], basis_tri_p[nn]>>, <<basis_tri_m[mm], basis_tri_m[nn]>>,
      <<basis_tri_p[mm], basis_tri_p[nn]>>, <<basis_tri_p[mm], basis_tri_m[nn]>> }
CellInRange(mm, nn) ==
    /\ \A x \in VectorReads(mm, nn) : InVector(x)
    /\ \A x \in ScalarReads(mm, nn) : InScalar(x)

\* Mutant: the plus/minus cross term added instead of subtracted.
VectorCellSignSlip(mm, nn, g) ==
    LET p_p == basis_tri_p[mm]    p_m == basis_tri_m[mm]
        ip_p == basis_node_p[mm]  ip_m == basis_node_m[mm]
        q_p == basis_tri_p[nn]    q_m == basis_tri_m[nn]
        iq_p == basis_node_p[nn]  iq_m == basis_node_m[nn]
    IN  FAdd(FSub(FAdd(ReadVector(<<p_p, q_p, ip_p, iq_p>>, g),
                       ReadVector(<<p_p, q_m, ip_p, iq_m>>, g)),
                  ReadVector(<<p_m, q_p, ip_m, iq_p>>, g)),
             ReadVector(<<p_m, q_m, ip_m, iq_m>>, g))

\* Lines 69-71.
VectorCell(mm, nn, g) ==
    LET p_p == basis_tri_p[mm]    p_m == basis_tri_m[mm]
        ip_p == basis_node_p[mm]  ip_m == basis_node_m[mm]
        q_p == basis_tri_p[nn]    q_m == basis_tri_m[nn]
        iq_p == basis_node_p[nn]  iq_m == basis_node_m[nn]
    IN  FAdd(FSub(FSub(ReadVector(<<p_p, q_p, ip_p, iq_p>>, g),
                       ReadVector(<<p_p, q_m, ip_p, iq_m>>, g)),
                  ReadVector(<<p_m, q_p, ip_m, iq_p>>, g)),
             ReadVector(<<p_m, q_m, ip_m, iq_m>>, g))

\* Mutant: the first term of the scalar sum with the wrong sign.
ScalarCellSignSlip(mm, nn, g) ==
    LET p_p == basis_tri_p[mm]    p_m == basis_tri_m[mm]
        q_p == basis_tri_p[nn]    q_m == basis_tri_m[nn]
    IN  FSub(FAdd(FAdd(ReadScalar(<<p_m, q_p>>, g),
                       ReadScalar(<<p_m, q_m>>, g)),
                  ReadScalar(<<p_p, q_p>>, g)),
             ReadScalar(<<p_p, q_m>>, g))

\* Lines 73-75.
ScalarCell(mm, nn, g) ==
    LET p_p == basis_tri_p[mm]    p_m == basis_tri_m[mm]
        q_p == basis_tri_p[nn]    q_m == basis_tri_m[nn]
    IN  FSub(FAdd(FAdd(FNeg(ReadScalar(<<p_m, q_p>>, g)),
                       ReadScalar(<<p_m, q_m>>, g)),
                  ReadScalar(<<p_p, q_p>>, g)),
             ReadScalar(<<p_p, q_m>>, g))

\* The loop indices after cell (mm, nn): the inner loop over n, then m.
NextN(nn) == IF nn + 1 < num_basis THEN nn + 1 ELSE 0
NextM(mm, nn) == IF nn + 1 < num_basis THEN mm ELSE mm + 1

Cells == (DOMAIN basis_tri_p) \X (DOMAIN basis_tri_p)

\* Lines 47-53: allocate the two outputs with np.empty.
EnterRwg ==
    /\ call = "rwg" /\ pc = "entry"
    /\ vector_rwg' = [x \in Cells |-> Uninit]
    /\ scalar_rwg' = [x \in Cells |-> Uninit]
    /\ rwg_m' = 0 /\ rwg_n' = 0
    /\ nwrites' = [vector_rwg |-> [x \in Cells |-> 0], scalar_rwg |-> [x \in Cells |-> 0]]
    /\ oob_used' = FALSE
    /\ pc' = IF num_basis = 0 THEN "return" ELSE "loop"
    /\ UNCHANGED <<call, args, volt, caller, handed_tri, handed_basis, writers,
                   scratch_users, free_count>>

\* Lines 55-75, one pass of the inner loop.
RwgCell ==
    /\ call = "rwg" /\ pc = "loop"
    /\ \E g \in (IF CellInRange(rwg_m, rwg_n) THEN {Zero} ELSE GarbageVal) :
         /\ vector_rwg' = [vector_rwg EXCEPT ![<<rwg_m, rwg_n>>] = VectorCell(rwg_m, rwg_n, g)]
         /\ scalar_rwg' = [scalar_rwg EXCEPT ![<<rwg_m, rwg_n>>] = ScalarCell(rwg_m, rwg_n, g)]
    /\ oob_used' = (oob_used \/ ~CellInRange(rwg_m, rwg_n))
    /\ nwrites' = [nwrites EXCEPT !.vector_rwg[<<rwg_m, rwg_n>>] = @ + 1,
                                  !.scalar_rwg[<<rwg_m, rwg_n>>] = @ + 1]
    /\ rwg_n' = NextN(rwg_n)
    /\ rwg_m' = NextM(rwg_m, rwg_n)
    /\ pc' = IF NextM(rwg_m, rwg_n) < num_basis THEN "loop" ELSE "return"
    /\ UNCHANGED <<call, args, volt, caller, handed_tri, handed_basis, writers,
                   scratch_users, free_count>>

\* An out-of-range read may also hit an unmapped page: the process dies.
RwgSegFault ==
    /\ call = "rwg" /\ pc = "loop"
    /\ ~CellInRange(rwg_m, rwg_n)
    /\ pc' = "crashed"
    /\ oob_used' = TRUE
    /\ UNCHANGED <<call, args, volt, rwg, caller, handed_tri, handed_basis,
                   writers, nwrites, scratch_users, free_count>>

\* Line 77: return vector_rwg, scalar_rwg.
ReturnRwg ==
    /\ call = "rwg" /\ pc = "return"
    /\ result' = <<vector_rwg, scalar_rwg>>
    /\ pc' = "returned"
    /\ UNCHANGED <<call, args, volt, rwg, omp_max_threads, swap_k, ncall, first_result, hist>>

\* Every tensor entry the basis table refers to exists.
RwgInputsValid == \A x \in Cells : CellInRange(x[1], x[2])

\* The caller of the sign-convention scenario: after the first conversion it
\* exchanges the plus and minus roles of basis function swap_k and converts again.
SwapRoles ==
    /\ call = "rwg" /\ pc = "returned" /\ ncall = 1
    /\ RwgInputsValid
    /\ swap_k \in DOMAIN basis_tri_p
    /\ first_result' = result
    /\ basis_tri_p' = [basis_tri_p EXCEPT ![swap_k] = basis_tri_m[swap_k]]
    /\ basis_tri_m' = [basis_tri_m EXCEPT ![swap_k] = basis_tri_p[swap_k]]
    /\ basis_node_p' = [basis_node_p EXCEPT ![swap_k] = basis_node_m[swap_k]]
    /\ basis_node_m' = [basis_node_m EXCEPT ![swap_k] = basis_node_p[swap_k]]
    /\ ncall' = 2
    /\ pc' = "entry"
    /\ UNCHANGED <<call, nodes, triangle_nodes, xi_eta_eval, weights, e_inc, jk_inc,
                   vector_face, scalar_face, volt, rwg, omp_max_threads, result,
                   swap_k, hist>>

NextRwg ==
    \/ EnterRwg
    \/ RwgCell
    \/ RwgSegFault
    \/ ReturnRwg
    \/ SwapRoles

Next == NextVoltage \/ NextRwg


Spec == Init /\ [][Next]_vars


\* ------------------------------------------------------------------ claims
\* The node coordinates of triangle t itself.
TriNodes(t) == [a \in Idx3 |-> nodes[triangle_nodes[t][a]]]

\* The Single-Pair Source Integrator's result for triangle t's own nodes.
FaceIntegral(t) ==
    source_integral_plane_wave(xi_eta_eval, weights, TriNodes(t), jk_inc, e_inc)

VoltageReturned == call = "voltage" /\ pc = "returned"

\* A call in which at least two threads were handed triangles and at least two
\* were handed basis functions.
SharedOut ==
    /\ \E t1, t2 \in DOMAIN handed_tri : handed_tri[t1] # handed_tri[t2]
    /\ \E b1, b2 \in DOMAIN handed_basis : handed_basis[b1] # handed_basis[b2]

\* C1: when voltage_plane_wave returns on in-range inputs, every V[m] equals
\* V_face[tri_plus(m), node_plus(m)] - V_face[tri_minus(m), node_minus(m)], with
\* V_face[p, :] the integrator's result for triangle p's own node coordinates,
\* whatever the number of threads and the assignment of iterations to threads.
C1_VoltageIsSignedFaceDifference ==
    (VoltageReturned /\ InputsValid) =>
        \A b \in DOMAIN basis_tri_p :
            result[b] = FSub(FaceIntegral(basis_tri_p[b])[basis_node_p[b]],
                             FaceIntegral(basis_tri_m[b])[basis_node_m[b]])

C1_Witness ==
    /\ VoltageReturned /\ InputsValid /\ ncall = 2
    /\ SharedOut
    /\ \A t \in DOMAIN V_face : V_face[t] = FaceIntegral(t)
    /\ \E t1, t2 \in DOMAIN V_face : V_face[t1] # V_face[t2]
    /\ \E b \in DOMAIN result : IsFin(result[b]) /\ result[b] # Zero


\* C3: in every interleaving of voltage_plane_wave, row V_face[p, :] is written
\* only by the one thread that was handed triangle p, and V[m] only by the one
\* thread that was handed basis function m.
C3_WritersAreOwners ==
    (call = "voltage" /\ pc # "entry") =>
        /\ \A t \in DOMAIN handed_tri :
             /\ Cardinality(handed_tri[t]) <= 1
             /\ writers.V_face[t] \subseteq handed_tri[t]
        /\ \A b \in DOMAIN handed_basis :
             /\ Cardinality(handed_basis[b]) <= 1
             /\ writers.V[b] \subseteq handed_basis[b]

C3_Witness ==
    /\ VoltageReturned /\ SharedOut
    /\ \A t \in DOMAIN handed_tri : writers.V_face[t] # {}
    /\ \A b \in DOMAIN handed_basis : writers.V[b] # {}

\* A thread holds a gathered triangle: its three node rows are copied and its
\* integration of the triangle has not finished.
Integrating(w) == tpc[w] \in {"zero", "point"}

\* C4: no thread reads or writes a scratch slot other than the one indexed by
\* its own identity, and while a thread integrates triangle p its slot holds
\* exactly the node coordinates of p, in every interleaving.
C4_ScratchOwnedByThread ==
    (call = "voltage" /\ pc = "parallel") =>
        /\ \A s \in DOMAIN scratch_users : scratch_users[s] \subseteq {s}
        /\ InputsValid =>
             \A w \in Threads :
                Integrating(w) => nodes_p[omp_get_thread_num(w)] = TriNodes(p[w])

C4_Witness ==
    /\ call = "voltage" /\ pc = "parallel" /\ InputsValid
    /\ \E w1, w2 \in Threads :
         /\ w1 # w2 /\ tpc[w1] = "point" /\ tpc[w2] = "point"
         /\ count_o[w1] > 0
         /\ nodes_p[w1] = TriNodes(p[w1]) /\ nodes_p[w2] = TriNodes(p[w2])
         /\ nodes_p[w1] # nodes_p[w2]
         /\ scratch_users[w1] = {w1} /\ scratch_users[w2] = {w2}

\* C5: for the same arguments, the call made with N threads returns the same
\* excitation vector as the call made with one thread, under every schedule.
C5_ParallelEqualsSerial ==
    (VoltageReturned /\ ncall = 2) => result = first_result

C5_Witness ==
    /\ VoltageReturned /\ ncall = 2 /\ SharedOut
    /\ Cardinality(Threads) >= 2
    /\ result = first_result
    /\ \E b \in DOMAIN result : result[b] # Zero


RwgReturned == call = "rwg" /\ pc = "returned"

\* C2: triangle_face_to_rwg returns, for every pair (m, n), vector_rwg[m, n] =
\* vf[p+,q+,i+,j+] - vf[p+,q-,i+,j-] - vf[p-,q+,i-,j+] + vf[p-,q-,i-,j-] and
\* scalar_rwg[m, n] = -sf[p-,q+] + sf[p-,q-] + sf[p+,q+] - sf[p+,q-], and leaves
\* no cell of the two num_basis x num_basis outputs unassigned.
C2_RwgIsSignedCombination ==
    (RwgReturned /\ RwgInputsValid) =>
        /\ DOMAIN result[1] = Cells /\ DOMAIN result[2] = Cells
        /\ \A x \in Cells :
             LET pp == basis_tri_p[x[1]]  pm == basis_tri_m[x[1]]
                 ip == basis_node_p[x[1]] im == basis_node_m[x[1]]
                 qp == basis_tri_p[x[2]]  qm == basis_tri_m[x[2]]
                 jp == basis_node_p[x[2]] jm == basis_node_m[x[2]]
             IN
             /\ result[1][x] # Uninit /\ result[2][x] # Uninit
             /\ result[1][x] =
                   Fin(vector_face[<<pp, qp, ip, jp>>][2] - vector_face[<<pp, qm, ip, jm>>][2]
                       - vector_face[<<pm, qp, im, jp>>][2] + vector_face[<<pm, qm, im, jm>>][2])
             /\ result[2][x] =
                   Fin(- scalar_face[<<pm, qp>>][2] + scalar_face[<<pm, qm>>][2]
                       + scalar_face[<<pp, qp>>][2] - scalar_face[<<pp, qm>>][2])

C2_Witness ==
    /\ RwgReturned /\ RwgInputsValid
    /\ Cardinality(Cells) >= 4
    /\ \E x, y \in Cells :
         /\ x[1] # x[2] /\ result[1][x] # Zero /\ result[2][x] # Zero
         /\ result[1][x] # result[1][y]

\* C6: a call of voltage_plane_wave whose basis table or triangle table holds an
\* out-of-range index ends in a fatal input-validation error: no excitation
\* vector is returned and the index is never used on a buffer.
C6_OutOfRangeIsFatal ==
    (call = "voltage" /\ ~InputsValid) => (pc # "returned" /\ ~oob_used)

\* C7: a call of triangle_face_to_rwg whose tensors omit an entry that a basis
\* function refers to raises a fatal input error: no matrices are returned and
\* no other value stands in for the missing entry.
C7_MissingEntryIsFatal ==
    (call = "rwg" /\ ~RwgInputsValid) => (pc # "returned" /\ ~oob_used)

\* C8 as claimed: every cell of V_face, V, vector_rwg and scalar_rwg is written
\* at most once after its allocation.
C8_EveryCellWrittenOnce ==
    /\ (call = "voltage" /\ pc # "entry") =>
          /\ \A t \in DOMAIN nwrites.V_face : \A c \in Idx3 : nwrites.V_face[t][c] <= 1
          /\ \A b \in DOMAIN nwrites.V : nwrites.V[b] <= 1
    /\ (call = "rwg" /\ pc # "entry") =>
          \A x \in Cells : nwrites.vector_rwg[x] <= 1 /\ nwrites.scalar_rwg[x] <= 1

\* C8, amended: every cell of V, vector_rwg and scalar_rwg is written at most
\* once (exactly once when the call returns); every cell of V_face is written
\* 1 + n_o times, once by the zeroing I[:] = 0.0 and once per quadrature point,
\* always by the same single thread.
C8_WriteCounts ==
    /\ (call = "voltage" /\ pc # "entry") =>
          /\ \A t \in DOMAIN nwrites.V_face : \A c \in Idx3 :
                /\ nwrites.V_face[t][c] <= 1 + n_o
                /\ Cardinality(writers.V_face[t]) <= 1
                /\ pc = "returned" => nwrites.V_face[t][c] = 1 + n_o
          /\ \A b \in DOMAIN nwrites.V :
                /\ nwrites.V[b] <= 1
                /\ pc = "returned" => nwrites.V[b] = 1
    /\ (call = "rwg" /\ pc # "entry") =>
          \A x \in Cells :
             /\ nwrites.vector_rwg[x] <= 1 /\ nwrites.scalar_rwg[x] <= 1
             /\ pc = "returned" => (nwrites.vector_rwg[x] = 1 /\ nwrites.scalar_rwg[x] = 1)

C8_Witness ==
    /\ VoltageReturned /\ SharedOut
    /\ \A t \in DOMAIN nwrites.V_face : \A c \in Idx3 : nwrites.V_face[t][c] = 1 + n_o
    /\ n_o >= 2
    /\ \A b \in DOMAIN nwrites.V : nwrites.V[b] = 1

\* The entries of the second conversion against those of the first.
Negated(i, x)   == result[i][x] = FNeg(first_result[i][x])
Unchanged(i, x) == result[i][x] = first_result[i][x]
SecondRwgReturned == RwgReturned /\ ncall = 2

\* C9 as claimed: exchanging the plus and minus roles of basis function k
\* changes the sign of every entry in row k and in column k of vector_rwg and
\* scalar_rwg and leaves all other entries unchanged.
C9_RowAndColumnNegated ==
    SecondRwgReturned =>
        \A x \in Cells : \A i \in 1 .. 2 :
            IF x[1] = swap_k \/ x[2] = swap_k THEN Negated(i, x) ELSE Unchanged(i, x)

\* C9, amended: the entries of row k and of column k other than the diagonal
\* entry (k, k) change sign; the diagonal entry (k, k), which lies in both, and
\* all entries outside row k and column k are unchanged.
C9_OffDiagonalNegated ==
    SecondRwgReturned =>
        \A x \in Cells : \A i \in 1 .. 2 :
            IF (x[1] = swap_k) # (x[2] = swap_k) THEN Negated(i, x) ELSE Unchanged(i, x)

C9_Witness ==
    /\ SecondRwgReturned
    /\ \A i \in 1 .. 2 :
         /\ result[i][<<swap_k, swap_k>>] # Zero
         /\ \E x \in Cells : x[1] = swap_k /\ x[2] # swap_k /\ result[i][x] # Zero
         /\ \E x \in Cells : x[1] # swap_k /\ x[2] = swap_k /\ result[i][x] # Zero
         /\ \E x \in Cells : x[1] # swap_k /\ x[2] # swap_k /\ result[i][x] # Zero

ZeroField == \A a \in Idx3 : e_inc[a] = Zero

AllZero ==
    /\ \A t \in DOMAIN V_face : \A c \in Idx3 : V_face[t][c] = Zero
    /\ \A b \in DOMAIN V : V[b] = Zero
    /\ pc = "returned" => \A b \in DOMAIN result : result[b] = Zero

\* The plane-wave factor cexp(-jk_inc . r) is finite at every quadrature point
\* of every triangle.
ExpFinite ==
    \A t \in DOMAIN triangle_nodes : \A c \in DOMAIN xi_eta_eval :
        IsFin(cexp(FNeg(dot_product_complex_real(Dim, jk_inc,
                ObserverPoint(xi_eta_eval[c][0], xi_eta_eval[c][1], TriNodes(t))))))

RowComplete(t) ==
    /\ \A c \in Idx3 : nwrites.V_face[t][c] = 1 + n_o
    /\ \A v \in Threads :
          (tpc[v] \in {"gather", "zero", "point"}) => PrivateP(v) # t

\* A thread is inside the second prange, where line 266 reads V_face.
Reducing(w) == tpc[w] = "reduce"

\* C11: in every interleaving of voltage_plane_wave, while any thread is in the
\* per-basis reduction every row V_face[p, :] is complete: zeroed and summed
\* over all quadrature points by the thread that integrated triangle p, every
\* triangle is handed out and no thread is gathering or integrating, so the
\* rows that V[m] = V_face[p_p, ip_p] - V_face[p_m, ip_m] reads are never
\* unwritten or partly accumulated.
C11_ReductionAfterIntegration ==
    (call = "voltage" /\ pc = "parallel" /\ \E w \in Threads : Reducing(w)) =>
        /\ next_p >= num_triangles
        /\ \A v \in Threads : tpc[v] \in {"barrier", "reduce", "end"}
        /\ \A t \in DOMAIN V_face : RowComplete(t)

C11_Witness ==
    /\ call = "voltage" /\ pc = "parallel" /\ InputsValid
    /\ \E w1, w2 \in Threads :
         /\ w1 # w2
         /\ Reducing(w1) /\ tpc[w2] = "barrier"
         /\ writers.V_face[0] = {w2}
         /\ \E t \in DOMAIN V_face : writers.V_face[t] = {w1}
    /\ \E b \in DOMAIN V : nwrites.V[b] = 1 /\ V[b] # Zero
    /\ basis_left # {}
    /\ \A t \in DOMAIN V_face : RowComplete(t) /\ V_face[t] = FaceIntegral(t)

\* A thread whose next step reads or writes nodes_p[thread_id, :, :].
ScratchAccessing(w) == tpc[w] \in {"gather", "point"}

\* The extents of the view <double[:n_threads, :3, :3]> nodes_p_storage.
ScratchShape ==
    /\ DOMAIN nodes_p = 0 .. (n_threads - 1)
    /\ \A s \in DOMAIN nodes_p :
          DOMAIN nodes_p[s] = Idx3 /\ \A a \in Idx3 : DOMAIN nodes_p[s][a] = Idx3

\* C12: every scratch access of voltage_plane_wave falls inside the live
\* scratch block.  From the entry of the parallel block until the release the
\* block is allocated and unreleased and has n_threads slots of 3x3, n_threads
\* being the thread count queried at entry; the team is no larger than that and
\* every thread's identity is a valid slot index; a thread about to gather
\* writes a row 0..2 of its slot; the block is released once, after every
\* thread has left the parallel block, and no thread is positioned to access
\* the scratch once it is released.
C12_ScratchInsideLiveBlock ==
    call = "voltage" =>
        /\ pc \in {"parallel", "free", "crashed"} =>
              /\ scratch_live /\ free_count = 0
              /\ n_threads = omp_max_threads
              /\ ScratchShape
              /\ Cardinality(Threads) <= n_threads
              /\ \A w \in Threads :
                    /\ thread_id[w] \in 0 .. (n_threads - 1)
                    /\ Slot(w) \in DOMAIN nodes_p
                    /\ tpc[w] = "gather" => m[w] \in Idx3
                    /\ tpc[w] = "point" => count_o[w] \in DOMAIN xi_eta_eval
              /\ \A s \in DOMAIN scratch_users : scratch_users[s] \subseteq Threads
        /\ pc \in {"free", "return", "returned"} => \A w \in Threads : tpc[w] = "end"
        /\ pc \in {"return", "returned"} => (~scratch_live /\ free_count = 1)
        /\ ~scratch_live => \A w \in Threads : ~ScratchAccessing(w)
        /\ free_count <= 1

C12_Witness ==
    /\ VoltageReturned /\ ncall = 2
    /\ ~scratch_live /\ free_count = 1
    /\ n_threads >= 2 /\ Cardinality(Threads) = n_threads
    /\ ScratchShape
    /\ \A s \in DOMAIN scratch_users : scratch_users[s] = {s}
    /\ \A w \in Threads : tpc[w] = "end"

====
